---- MODULE Spec2Model ----
(***************************************************************************)
(* The Rauch-Tung-Striebel backward recursion of                           *)
(* stonesoup/smoother/kalman.py (KalmanSmoother, ExtendedKalmanSmoother)   *)
(* over one-dimensional Gaussian states with exact rational arithmetic,    *)
(* and the mean-motion orbital transition exercised by                     *)
(* stonesoup/models/transition/tests/test_orbital_transition.py.           *)
(***************************************************************************)
EXTENDS Integers, Sequences, FiniteSets, TLC

(* ---------------------------- bounds ----------------------------------- *)
\* longest input Track
MaxLen == 3
\* largest mean motion and largest |dt| of the orbital transition inputs
MaxMotion == 3
MaxDt == 3
\* angle units in half a revolution (pi); a revolution is 2 * PiUnits
PiUnits == 4

(* ------------------- exact arithmetic (numpy scalars) ------------------ *)
\* A number is <<numerator, denominator>> in lowest terms, denominator > 0.
\* <<0, 0>> is a local variable that has not been assigned yet.
Unassigned == <<0, 0>>

Abs(x) == IF x < 0 THEN -x ELSE x

RECURSIVE GCD(_, _)
GCD(a, b) == IF b = 0 THEN a ELSE GCD(b, a % b)

RNorm(n, d) ==
    LET g == GCD(Abs(n), Abs(d))
        s == IF d < 0 THEN -1 ELSE 1
    IN  <<(s * n) \div g, (s * d) \div g>>

Rat(i) == <<i, 1>>
RAdd(a, b) == RNorm(a[1] * b[2] + b[1] * a[2], a[2] * b[2])
RSub(a, b) == RNorm(a[1] * b[2] - b[1] * a[2], a[2] * b[2])
RMul(a, b) == RNorm(a[1] * b[1], a[2] * b[2])
\* np.linalg.inv of a 1x1 matrix; the caller has excluded the singular case
RInv(a) == RNorm(a[2], a[1])
\* np.linalg.inv raises LinAlgError on a singular matrix
Singular(a) == a[1] = 0

(* --------------------------- the data model ---------------------------- *)
GaussianStatePrediction == "GaussianStatePrediction"
GaussianStateUpdate == "GaussianStateUpdate"
\* a state that is neither a prediction nor an update
GaussianState == "GaussianState"

\* values of the optional transition_model attribute of a prediction, and of
\* the smoother's transition_model property
Missing == "Missing"      \* the object has no such attribute
None == "None"            \* the attribute is there and holds None
ModelA == "ModelA"
ModelB == "ModelB"

\* isinstance(state, Prediction) / isinstance(state, Update)
IsPrediction(s) == s.kind = GaussianStatePrediction
IsUpdate(s) == s.kind = GaussianStateUpdate

\* Object references: a state lives in the heap at its id; a hypothesis at
\* its id in hypotheses.  A reference to a prediction is <<"state", id>> or
\* <<"hypothesis", id>> (the hypothesis's prediction); <<"error", 0>> stands
\* for a raised TypeError and <<"unset", 0>> for an unassigned local.
StateRef(id) == <<"state", id>>
HypRef(h) == <<"hypothesis", h>>
TypeErrorRef == <<"error", 0>>
UnsetRef == <<"unset", 0>>

VARIABLES
    cls,               \* the smoother's class
    transition_model,  \* the smoother's transition_model property
    heap,              \* state objects by id (ids 1..Len(heap))
    hypotheses,        \* hypothesis objects by id
    track,             \* the input Track: a sequence of state ids
    pc,                \* position of the call to smooth
    error,             \* the exception raised, if any
    firststate, smoothed_track, idx, state, prev_state, prediction,
    time_interval, resolved_model, matrix_args, transition_matrix,
    ksmooth_gain, smooth_mean, smooth_covar,   \* locals of smooth
    out_tle, initial_state, final_state, deltat   \* the orbital transition test

vars == <<cls, transition_model, heap, hypotheses, track, pc, error,
          firststate, smoothed_track, idx, state, prev_state, prediction,
          time_interval, resolved_model, matrix_args, transition_matrix,
          ksmooth_gain, smooth_mean, smooth_covar,
          out_tle, initial_state, final_state, deltat>>

smoother_vars == <<cls, transition_model, heap, hypotheses, track, error,
          firststate, smoothed_track, idx, state, prev_state, prediction,
          time_interval, resolved_model, matrix_args, transition_matrix,
          ksmooth_gain, smooth_mean, smooth_covar>>

orbit_vars == <<out_tle, initial_state, final_state, deltat>>

(* --------------------------- input Tracks ------------------------------ *)
Kinds == {GaussianStatePrediction, GaussianStateUpdate}
AttachedModels == {Missing, None, ModelA, ModelB}
DefaultModels == {None, ModelA}
Classes == {"KalmanSmoother", "ExtendedKalmanSmoother"}
\* covariance scale of an element's prediction; 0 makes it singular
Covars == {0, 2}

ElementChoices ==
    {[kind |-> k, model |-> m, covar |-> c] :
        k \in Kinds, m \in AttachedModels, c \in Covars}
    \cup {[kind |-> GaussianState, model |-> Missing, covar |-> 2]}

\* strictly increasing timestamps with unequal gaps: 1, 3, 6, 10, ...
Timestamp(i) == (i * (i + 1)) \div 2

PredictedMean(i) == Rat(3 * i)
PredictedCovar(i, ch) == Rat(ch.covar * (1 + (i % 2)))

\* the prediction an update at position i was corrected from
InputPrediction(i, ch) ==
    [kind |-> GaussianStatePrediction,
     state_vector |-> PredictedMean(i),
     covar |-> PredictedCovar(i, ch),
     timestamp |-> Timestamp(i),
     hypothesis |-> 0,
     transition_model |-> ch.model]

\* the element at position i of the input Track
InputState(i, ch) ==
    IF ch.kind = GaussianStateUpdate
    THEN [kind |-> GaussianStateUpdate,
          state_vector |-> RAdd(PredictedMean(i), Rat(1)),
          covar |-> RMul(PredictedCovar(i, ch), <<1, 2>>),
          timestamp |-> Timestamp(i),
          hypothesis |-> i,
          transition_model |-> Missing]
    ELSE [InputPrediction(i, ch) EXCEPT !.kind = ch.kind]

(* ------------------------ KalmanSmoother helpers ----------------------- *)
\* the object a prediction reference points at
Deref(h, hyps, ref) ==
    IF ref[1] = "state" THEN h[ref[2]] ELSE hyps[ref[2]].prediction

\* _prediction with the update branch lost
_prediction_PredictionsOnly(h, id) ==
    IF h[id].kind = GaussianStatePrediction THEN StateRef(id)
    ELSE TypeErrorRef

\* KalmanSmoother._prediction
_prediction(h, id) ==
    IF h[id].kind = GaussianStatePrediction THEN StateRef(id)
    ELSE IF h[id].kind = GaussianStateUpdate THEN HypRef(h[id].hypothesis)
    ELSE TypeErrorRef

\* _transition_model treating an attribute that holds None as absent
_transition_model_NoneAsMissing(h, hyps, default, id) ==
    LET p == Deref(h, hyps, _prediction(h, id))
    IN  IF p.transition_model \notin {Missing, None}
        THEN p.transition_model
        ELSE default

\* KalmanSmoother._transition_model, for a state whose _prediction exists
_transition_model(h, hyps, default, id) ==
    LET p == Deref(h, hyps, _prediction(h, id))
    IN  IF p.transition_model # Missing     \* hasattr(..., "transition_model")
        THEN p.transition_model
        ELSE default

\* TransitionModel.matrix(time_interval) of the two models of the inputs
matrix(model, dt) ==
    IF model = ModelA THEN Rat(1) ELSE Rat(1 + dt)

\* the arguments smooth hands to the model's matrix operation
MatrixArguments(id, dt) == <<dt>>

TimeInterval(prev, s) == prev.timestamp - s.timestamp

\* the gain without the inversion of the predicted covariance
SmoothGain_NoInverse(covar, T, pred_covar) == RMul(RMul(covar, T), pred_covar)

SmoothGain(covar, T, pred_covar) == RMul(RMul(covar, T), RInv(pred_covar))

SmoothMean(sv, gain, prev_sv, pred_sv) ==
    RAdd(sv, RMul(gain, RSub(prev_sv, pred_sv)))

SmoothCovar(covar, gain, prev_covar, pred_covar) ==
    RAdd(covar, RMul(RMul(gain, RSub(prev_covar, pred_covar)), gain))

\* from_state that always builds a prediction
from_state_AsPrediction(s, mean, covar) ==
    [kind |-> GaussianStatePrediction, state_vector |-> mean, covar |-> covar,
     timestamp |-> s.timestamp, hypothesis |-> 0,
     transition_model |-> s.transition_model]

\* Update.from_state / Prediction.from_state as smooth calls them
from_state(s, mean, covar) ==
    IF IsUpdate(s)
    THEN [kind |-> s.kind, state_vector |-> mean, covar |-> covar,
          timestamp |-> s.timestamp, hypothesis |-> s.hypothesis,
          transition_model |-> s.transition_model]
    ELSE [kind |-> s.kind, state_vector |-> mean, covar |-> covar,
          timestamp |-> s.timestamp, hypothesis |-> 0,
          transition_model |-> s.transition_model]

\* the smoothed values written into the input state itself
Construct_InPlace(h, id, rec) == [h EXCEPT ![id] = rec]

\* the heap after constructing the smoothed counterpart of state id
Construct(h, id, rec) == Append(h, rec)

\* the accumulated output left in backward order
Reverse_Omitted(s) == s

\* Track.reverse
Reverse(s) == [i \in 1..Len(s) |-> s[Len(s) + 1 - i]]


(* ----------------------------- the orbit ------------------------------- *)
\* one full revolution (2 * np.pi)
TwoPi == 2 * PiUnits

\* the transition without the reduction modulo a revolution
transition_Unreduced(s, dt) ==
    [s EXCEPT !.mean_anomaly = s.mean_anomaly + s.mean_motion * dt]

\* SimpleMeanMotionTransitionModel.transition: the mean anomaly advances by
\* mean motion * dt, reduced modulo a revolution; the other elements stay
transition(s, dt) ==
    [s EXCEPT !.mean_anomaly = (s.mean_anomaly + s.mean_motion * dt) % TwoPi]

\* test_meanmotion_transition's expected value, np.remainder(M0 + dt*n, 2*pi)
final_meananomaly(tle, dt) == (tle.mean_anomaly + dt * tle.mean_motion) % TwoPi

NoOrbit ==
    [inclination |-> 0, raan |-> 0, eccentricity |-> 0, arg_perigee |-> 0,
     mean_anomaly |-> 0, mean_motion |-> 0]

(* ------------------------------- Init ---------------------------------- *)
\* a constructed smoother and a forward Track, before smooth is called
Init ==
    /\ \E n \in 1..MaxLen :
         \E ch \in [1..n -> ElementChoices] :
            /\ heap = [i \in 1..n |-> InputState(i, ch[i])]
            /\ hypotheses =
                 [i \in {j \in 1..n : ch[j].kind = GaussianStateUpdate} |->
                    [prediction |-> InputPrediction(i, ch[i])]]
            /\ track = [i \in 1..n |-> i]
    /\ cls \in Classes
    /\ transition_model \in DefaultModels
    /\ pc = "constructed"
    /\ error = "none"
    /\ firststate = FALSE
    /\ smoothed_track = <<>>
    /\ idx = 0
    /\ state = 0
    /\ prev_state = 0
    /\ prediction = UnsetRef
    /\ time_interval = 0
    /\ resolved_model = Missing
    /\ matrix_args = <<>>
    /\ transition_matrix = Unassigned
    /\ ksmooth_gain = Unassigned
    /\ smooth_mean = Unassigned
    /\ smooth_covar = Unassigned
    /\ out_tle = NoOrbit
    /\ initial_state = NoOrbit
    /\ final_state = NoOrbit
    /\ deltat = 0

(* ------------------------ KalmanSmoother.smooth ------------------------ *)
\* lines 84-86: the locals before the first iteration of reversed(track)
SmoothBegin ==
    /\ pc = "constructed"
    /\ pc' = "loop"
    /\ firststate' = TRUE
    /\ smoothed_track' = <<>>
    /\ idx' = Len(track)
    /\ UNCHANGED <<cls, transition_model, heap, hypotheses, track, error,
                   state, prev_state, prediction, time_interval,
                   resolved_model, matrix_args, transition_matrix,
                   ksmooth_gain, smooth_mean, smooth_covar>>
    /\ UNCHANGED orbit_vars

\* the iteration of the latest state: lines 88-91, then line 117
FirstIteration ==
    /\ pc = "loop" /\ idx > 0 /\ firststate
    /\ LET id == track[idx]
           p == _prediction(heap, id)
       IN  /\ state' = id
           /\ prev_state' = id
           /\ smoothed_track' = Append(smoothed_track, id)
           /\ firststate' = FALSE
           /\ IF p = TypeErrorRef
              THEN /\ pc' = "raised" /\ error' = "TypeError"
                   /\ UNCHANGED <<prediction, idx>>
              ELSE /\ prediction' = p /\ idx' = idx - 1
                   /\ UNCHANGED <<pc, error>>
    /\ UNCHANGED <<cls, transition_model, heap, hypotheses, track,
                   time_interval, resolved_model, matrix_args,
                   transition_matrix, ksmooth_gain, smooth_mean, smooth_covar>>
    /\ UNCHANGED orbit_vars

\* an iteration of an earlier state: lines 94-114, then line 117
Iteration ==
    /\ pc = "loop" /\ idx > 0 /\ ~firststate
    /\ LET id == track[idx]
           s == heap[id]
           prev == heap[prev_state]
           dt == TimeInterval(prev, s)
           own == _prediction(heap, id)
           model == _transition_model(heap, hypotheses, transition_model, id)
           pred == Deref(heap, hypotheses, prediction)
           T == matrix(model, dt)
           gain == SmoothGain(s.covar, T, pred.covar)
           mean == SmoothMean(s.state_vector, gain, prev.state_vector,
                              pred.state_vector)
           covar == SmoothCovar(s.covar, gain, prev.covar, pred.covar)
           new_heap == Construct(heap, id, from_state(s, mean, covar))
           new_id == Len(new_heap)
       IN  /\ state' = id
           /\ time_interval' = dt
           /\ IF own = TypeErrorRef
              THEN \* line 98: _transition_model -> _prediction raises
                   /\ pc' = "raised" /\ error' = "TypeError"
                   /\ UNCHANGED <<heap, smoothed_track, idx, prev_state,
                                  prediction, resolved_model, matrix_args,
                                  transition_matrix, ksmooth_gain,
                                  smooth_mean, smooth_covar>>
              ELSE IF model = None
              THEN \* line 98: None has no attribute matrix
                   /\ pc' = "raised" /\ error' = "AttributeError"
                   /\ resolved_model' = model
                   /\ UNCHANGED <<heap, smoothed_track, idx, prev_state,
                                  prediction, matrix_args,
                                  transition_matrix, ksmooth_gain,
                                  smooth_mean, smooth_covar>>
              ELSE IF Singular(pred.covar)
              THEN \* line 100: np.linalg.inv raises LinAlgError
                   /\ pc' = "raised" /\ error' = "LinAlgError"
                   /\ resolved_model' = model
                   /\ matrix_args' = MatrixArguments(id, dt)
                   /\ transition_matrix' = T
                   /\ UNCHANGED <<heap, smoothed_track, idx, prev_state,
                                  prediction, ksmooth_gain,
                                  smooth_mean, smooth_covar>>
              ELSE /\ resolved_model' = model
                   /\ matrix_args' = MatrixArguments(id, dt)
                   /\ transition_matrix' = T
                   /\ ksmooth_gain' = gain
                   /\ smooth_mean' = mean
                   /\ smooth_covar' = covar
                   /\ heap' = new_heap
                   /\ prev_state' = new_id
                   /\ smoothed_track' = Append(smoothed_track, prev_state')
                   /\ prediction' = own
                   /\ idx' = idx - 1
                   /\ UNCHANGED <<pc, error>>
    /\ UNCHANGED <<cls, transition_model, hypotheses, track, firststate>>
    /\ UNCHANGED orbit_vars

\* lines 119-120: the loop is exhausted
Return ==
    /\ pc = "loop" /\ idx = 0
    /\ smoothed_track' = Reverse(smoothed_track)
    /\ pc' = "returned"
    /\ UNCHANGED <<cls, transition_model, heap, hypotheses, track, error,
                   firststate, idx, state, prev_state, prediction,
                   time_interval, resolved_model, matrix_args,
                   transition_matrix, ksmooth_gain, smooth_mean, smooth_covar>>
    /\ UNCHANGED orbit_vars

Next == SmoothBegin \/ FirstIteration \/ Iteration \/ Return

Spec == Init /\ [][Next]_vars

(* -------------------- test_meanmotion_transition ----------------------- *)
\* TLEOrbitalState(out_tle, timestamp=time1)
TLEOrbitalState(tle) == tle

OrbitalElements ==
    {[inclination |-> 1, raan |-> 2, eccentricity |-> 0, arg_perigee |-> 3,
      mean_anomaly |-> m, mean_motion |-> n] :
        m \in 0..(TwoPi - 1), n \in 0..MaxMotion}

InitOrbit ==
    /\ out_tle \in OrbitalElements
    /\ deltat \in (-MaxDt)..MaxDt
    /\ initial_state = NoOrbit
    /\ final_state = NoOrbit
    /\ pc = "test"
    /\ cls = "KalmanSmoother"
    /\ transition_model = None
    /\ heap = <<>>
    /\ hypotheses = <<>>
    /\ track = <<>>
    /\ error = "none"
    /\ firststate = FALSE
    /\ smoothed_track = <<>>
    /\ idx = 0
    /\ state = 0
    /\ prev_state = 0
    /\ prediction = UnsetRef
    /\ time_interval = 0
    /\ resolved_model = Missing
    /\ matrix_args = <<>>
    /\ transition_matrix = Unassigned
    /\ ksmooth_gain = Unassigned
    /\ smooth_mean = Unassigned
    /\ smooth_covar = Unassigned

\* lines 28-29: construct the initial state and propagate it by deltat
test_meanmotion_transition ==
    /\ pc = "test"
    /\ initial_state' = TLEOrbitalState(out_tle)
    /\ final_state' = transition(initial_state', deltat)
    /\ pc' = "test_done"
    /\ UNCHANGED <<out_tle, deltat>>
    /\ UNCHANGED smoother_vars

NextOrbit == test_meanmotion_transition

SpecOrbit == InitOrbit /\ [][NextOrbit]_vars

(* ======================= properties of smooth ========================== *)
N == Len(track)
Input(i) == heap[track[i]]
Output(i) == heap[smoothed_track[i]]

\* the prediction associated with the input Track's element i: the element
\* itself if it is a prediction, else its hypothesis's prediction
AssociatedPrediction(i) ==
    IF Input(i).kind = GaussianStatePrediction
    THEN Input(i)
    ELSE hypotheses[Input(i).hypothesis].prediction

AllGaussian == \A i \in 1..N : Input(i).kind \in Kinds

\* the last step of the backward pass processed the non-terminal position
\* `state` to its end, evaluating the resolved model's matrix
StepEvaluated == state > 0 /\ state < N /\ error = "none"

\* the last step of the backward pass processed the non-terminal position
\* `state` to its end, and the pass has not been reversed yet
StepDone == pc = "loop" /\ state > 0 /\ state < N

\* C1: when smooth returns for a Track of n >= 1 Gaussian predictions and
\* updates, the returned Track has exactly n elements and its i-th element
\* carries the timestamp of the i-th input element.
C1_SameLengthSameTimestamps ==
    (pc = "returned" /\ AllGaussian) =>
        /\ Len(smoothed_track) = N
        /\ \A i \in 1..N : Output(i).timestamp = Input(i).timestamp

C1_Witness ==
    /\ pc = "returned" /\ AllGaussian /\ N >= 3
    /\ \E i \in 1..N : smoothed_track[i] # track[i]

\* C2: every element of the returned Track has the kind of the input element
\* at its position, an update references the hypothesis of the input update,
\* and no element is the same object as its neighbour.
C2_KindPreserved ==
    pc = "returned" =>
        /\ Len(smoothed_track) = N
        /\ \A i \in 1..N :
              /\ Output(i).kind = Input(i).kind
              /\ IsUpdate(Input(i)) =>
                    /\ IsUpdate(Output(i))
                    /\ Output(i).hypothesis = Input(i).hypothesis
              /\ IsPrediction(Input(i)) => IsPrediction(Output(i))
        /\ \A i \in 1..(N - 1) : smoothed_track[i] # smoothed_track[i + 1]

C2_Witness ==
    /\ pc = "returned" /\ N >= 2
    /\ \E i \in 1..(N - 1) : IsUpdate(Input(i)) /\ smoothed_track[i] # track[i]
    /\ \E i \in 1..(N - 1) : IsPrediction(Input(i))

\* what C3 promises of a call on a single-element Track
SingleReturnedUnchanged ==
    /\ pc # "raised" /\ error = "none"
    /\ pc = "returned" =>
          /\ smoothed_track = track
          /\ Len(heap) = 1
          /\ \E ch \in ElementChoices : heap[1] = InputState(1, ch)
          /\ matrix_args = <<>>
          /\ transition_matrix = Unassigned
          /\ ksmooth_gain = Unassigned
          /\ smooth_mean = Unassigned
          /\ smooth_covar = Unassigned

\* C3 as stated: for a Track holding any single state S, smooth returns [S]
\* unchanged, performs no recursion step and raises no error.
C3_AnySingleState == N = 1 => SingleReturnedUnchanged

\* C3 amended: for a Track holding a single state S that is a Gaussian
\* prediction or a Gaussian update, smooth returns [S] unchanged, performs
\* no recursion step and raises no error.
C3_SingleGaussianState == (N = 1 /\ AllGaussian) => SingleReturnedUnchanged

C3_Witness ==
    /\ N = 1 /\ pc = "returned" /\ IsUpdate(Input(1))
    /\ hypotheses[Input(1).hypothesis].prediction.transition_model = None
    /\ transition_model = None

\* a state with no resolvable model in the words of C4: none attached to its
\* prediction and no default configured on the smoother
NoResolvableModel(i) ==
    /\ Input(i).kind \in Kinds
    /\ AssociatedPrediction(i).transition_model \in {Missing, None}
    /\ transition_model = None

\* a state for which the resolution of lines 61-67 yields None
ResolvesToNone(i) ==
    /\ Input(i).kind \in Kinds
    /\ IF AssociatedPrediction(i).transition_model = Missing
       THEN transition_model = None
       ELSE AssociatedPrediction(i).transition_model = None

NothingComputed ==
    /\ smoothed_track = <<>>
    /\ matrix_args = <<>>
    /\ transition_matrix = Unassigned
    /\ ksmooth_gain = Unassigned
    /\ smooth_mean = Unassigned
    /\ smooth_covar = Unassigned
    /\ Len(heap) = N

\* C4 as stated: a Track with a state that has no resolvable model is never
\* smoothed, and the error for the missing model is raised before anything
\* was computed or accumulated, wherever that state sits.
C4_FailsBeforeAnyComputation ==
    (\E i \in 1..N : NoResolvableModel(i)) =>
        /\ pc # "returned"
        /\ (pc = "raised" /\ error = "AttributeError") => NothingComputed

\* C4 amended: smooth never returns a Track when a state other than the
\* latest resolves to no model; the error is an AttributeError raised when
\* the backward pass reaches that state at position k, after the n - k later
\* elements were computed and accumulated.  The latest state's model is
\* never consulted.
C4_FailsAtTheState ==
    /\ pc = "returned" => \A i \in 1..(N - 1) : ~ResolvesToNone(i)
    /\ (pc = "raised" /\ error = "AttributeError") =>
          /\ state = idx /\ idx >= 1 /\ idx < N
          /\ ResolvesToNone(idx)
          /\ \A i \in (idx + 1)..(N - 1) : ~ResolvesToNone(i)
          /\ Len(smoothed_track) = N - idx
          /\ Len(heap) = N + (N - idx - 1)
          /\ (N - idx >= 2) => ksmooth_gain # Unassigned

C4_Witness ==
    /\ pc = "raised" /\ error = "AttributeError"
    /\ Len(smoothed_track) >= 2
    /\ NoResolvableModel(idx)

C4_LatestWitness ==
    /\ pc = "returned" /\ N >= 2 /\ NoResolvableModel(N)

\* C5: no step of smooth, in a call that returns or one that raises, changes
\* the input Track, an existing state, a hypothesis or the smoother's
\* transition_model; a returned element that differs from the input element
\* at its position is an object constructed during the call.
C5_Frame ==
    /\ [][ /\ track' = track
           /\ hypotheses' = hypotheses
           /\ transition_model' = transition_model
           /\ cls' = cls
           /\ Len(heap') >= Len(heap)
           /\ \A id \in 1..Len(heap) : heap'[id] = heap[id] ]_vars
    /\ [](pc = "returned" =>
            \A i \in 1..N :
               \/ smoothed_track[i] = track[i]
               \/ smoothed_track[i] > N)

C5_Witness ==
    /\ pc = "returned" /\ N >= 2
    /\ \E i \in 1..N : Output(i).state_vector # Input(i).state_vector

C5_FailingWitness == pc = "raised" /\ Len(heap) > N

\* C7: the model whose matrix is evaluated at the step of S_k is the model
\* attached to P_{k+1}, whenever P_{k+1} carries one.
C7_ModelOfLaterPrediction ==
    (StepEvaluated
       /\ AssociatedPrediction(state + 1).transition_model
             \notin {Missing, None})
    => resolved_model = AssociatedPrediction(state + 1).transition_model

\* C8: at the step of position k the gain is cov(S_k) * T / cov(P_{k+1}) with
\* P_{k+1} the prediction associated with input element k+1, and the smoothed
\* mean and covariance are built from the output element accumulated for
\* k+1 and from P_{k+1}; at k = n-1 that output element is the latest input
\* state itself.
C8_BackwardStep ==
    StepDone =>
        LET k == state
            m == Len(smoothed_track)
            P == AssociatedPrediction(k + 1)
            later == heap[smoothed_track[m - 1]]
            out == heap[smoothed_track[m]]
            G == RMul(RMul(Input(k).covar, transition_matrix), RInv(P.covar))
        IN  /\ m = N - k + 1
            /\ prev_state = smoothed_track[m]
            /\ ksmooth_gain = G
            /\ out.state_vector =
                  RAdd(Input(k).state_vector,
                       RMul(G, RSub(later.state_vector, P.state_vector)))
            /\ out.covar =
                  RAdd(Input(k).covar,
                       RMul(RMul(G, RSub(later.covar, P.covar)), G))
            /\ (k = N - 1) => smoothed_track[m - 1] = track[N]
            /\ (k < N - 1) => smoothed_track[m - 1] > N

C8_Witness ==
    /\ StepDone /\ state = N - 2
    /\ LET m == Len(smoothed_track)
       IN  /\ heap[smoothed_track[m - 1]].state_vector
                 # Input(state + 1).state_vector
           /\ heap[smoothed_track[m]].state_vector # Input(state).state_vector
           /\ IsUpdate(Input(state + 1))

\* C9: the extended smoother supplies the state, together with the time
\* interval, to the resolved model's matrix operation.
C9_StateSupplied ==
    (cls = "ExtendedKalmanSmoother" /\ StepEvaluated)
    => matrix_args = <<state, time_interval>>

\* C10: when the prediction consulted for the model carries none (attribute
\* missing or None) and a default is configured, the default is resolved.
C10_FallsBackToDefault ==
    (/\ state > 0 /\ state < N /\ error # "TypeError"
     /\ AssociatedPrediction(state).transition_model \in {Missing, None}
     /\ transition_model # None)
    => resolved_model = transition_model

(* =================== properties of the orbit test ====================== *)
\* C6: the propagated state's mean anomaly is (M0 + n * dt) reduced modulo a
\* revolution, every other element is the input's, and the input state's
\* mean anomaly is still M0.
C6_MeanAnomalyAdvances ==
    pc = "test_done" =>
        LET M0 == out_tle.mean_anomaly
            n == out_tle.mean_motion
            M == M0 + n * deltat
            revs == IF M >= 0 THEN M \div (2 * PiUnits)
                    ELSE -((-M + 2 * PiUnits - 1) \div (2 * PiUnits))
        IN  /\ final_state.mean_anomaly = M - revs * (2 * PiUnits)
            /\ final_state.mean_anomaly >= 0
            /\ final_state.mean_anomaly < 2 * PiUnits
            /\ final_state.mean_anomaly = final_meananomaly(out_tle, deltat)
            /\ final_state.mean_motion = n
            /\ final_state.inclination = out_tle.inclination
            /\ final_state.raan = out_tle.raan
            /\ final_state.eccentricity = out_tle.eccentricity
            /\ final_state.arg_perigee = out_tle.arg_perigee
            /\ initial_state.mean_anomaly = M0

C6_Witness ==
    /\ pc = "test_done"
    /\ out_tle.mean_anomaly + out_tle.mean_motion * deltat >= 2 * PiUnits
    /\ final_state.mean_anomaly # initial_state.mean_anomaly

====
